---- MODULE Spec2Model ----
(***************************************************************************)
(* Raqote-Deno: the DrawTarget facade (the full class, src/mod/test.ts     *)
(* lines 44-118; src/mod/lib.ts holds the same class without drawImageAt,  *)
(* drawImageWithSizeAt, encodePNG and destroy), the op wrappers of         *)
(* src/mod/ops.ts and the synchronous channel to the rendering plugin.     *)
(*                                                                         *)
(* The plugin is external: what it answers to a call is an input of the    *)
(* model, drawn from the buffers of Responses.                             *)
(***************************************************************************)
EXTENDS FiniteSets, Integers, Sequences, TLC

\* ------------------------------------------------------------------ bounds
MaxObjects == 3      \* DrawTarget objects the host program constructs
MaxID == 1           \* largest surface id passed to a wrapper called directly

\* ------------------------------------------------------------- the channel
\* Bytes a response is made of: the UTF-8 codes of "0", "1" and "n".
Bytes == {48, 49, 110}

\* The buffers the plugin answers with: the empty buffer, every one-byte
\* buffer ("0", "1", "n") and a longer one ("01"); one for each way the
\* length and text tests of the wrappers can come out.
Responses == {<<>>} \cup {<<c>> : c \in Bytes} \cup {<<48, 49>>}

\* One UTF-8 code unit as text (ASCII range; anything else is U+FFFD).
Chr(c) ==
    CASE c = 48 -> "0"
      [] c = 49 -> "1"
      [] c = 110 -> "n"
      [] OTHER -> "?"

\* decoder.decode(buffer): TextDecoder("utf-8")
RECURSIVE decode(_)
decode(buf) ==
    IF buf = <<>> THEN "" ELSE Chr(Head(buf)) \o decode(Tail(buf))

\* Opcodes, bound by name by (Deno as any).core.ops()
op_new_draw_target == "op_new_draw_target"
op_dt_get_data == "op_dt_get_data"
op_dt_fill_rect == "op_dt_fill_rect"
op_dt_fill == "op_dt_fill"
op_dt_stroke == "op_dt_stroke"
op_dt_write_png == "op_dt_write_png"
op_dt_encode == "op_dt_encode"
op_dt_draw_image_at == "op_dt_draw_image_at"
op_dt_draw_image_with_size_at == "op_dt_draw_image_with_size_at"
op_dt_destroy == "op_dt_destroy"
op_dt_clear == "op_dt_clear"
op_dt_height == "op_dt_height"
op_dt_width == "op_dt_width"
op_dt_set_transform == "op_dt_set_transform"
op_dt_push_layer == "op_dt_push_layer"
op_dt_pop_layer == "op_dt_pop_layer"
op_dt_push_layer_with_blend == "op_dt_push_layer_with_blend"
op_dt_pop_clip == "op_dt_pop_clip"
op_dt_push_clip == "op_dt_push_clip"
op_dt_push_clip_rect == "op_dt_push_clip_rect"

\* ------------------------------------------------------ JavaScript objects
\* An object with optional properties is a record whose fields are <<>> for
\* a property that is undefined and <<v>> for a property that holds v.
Undefined == <<>>
Has(v) == <<v>>

\* The properties of o that JSON.stringify writes, with their values:
\* a property that is undefined is left out.
Flat(o) == [k \in {k \in DOMAIN o : o[k] # Undefined} |-> o[k][1]]

\* JSON.stringify(o), as the structure the text spells out: for a PathData
\* its steps in order, each with the properties it has.
JSON_stringify(o) ==
    IF "steps" \in DOMAIN o
    THEN [steps |-> [i \in 1..Len(o.steps) |-> Flat(o.steps[i])]]
    ELSE Flat(o)

\* A _fix_src whose default spread is not the documented one.
_fix_src_wrong_default(src) ==
    [color |-> IF src.color = Undefined
               THEN Has([a |-> 0, r |-> 0, g |-> 0, b |-> 0]) ELSE src.color,
     start |-> IF src.start = Undefined THEN Has(<<0, 0>>) ELSE src.start,
     end |-> IF src.end = Undefined THEN Has(<<0, 0>>) ELSE src.end,
     center |-> IF src.center = Undefined THEN Has(<<0, 0>>) ELSE src.center,
     radius |-> IF src.radius = Undefined \/ src.radius = Has(0) THEN Has(0)
                ELSE src.radius,
     center2 |-> IF src.center2 = Undefined THEN Has(<<0, 0>>)
                 ELSE src.center2,
     radius2 |-> IF src.radius2 = Undefined \/ src.radius2 = Has(0) THEN Has(0)
                 ELSE src.radius2,
     spread |-> IF src.spread = Undefined \/ src.spread = Has("")
                THEN Has("Repeat") ELSE src.spread,
     gradient |-> IF src.gradient = Undefined THEN Has([stops |-> <<>>])
                  ELSE src.gradient,
     src_type |-> src.src_type]

\* A _fix_src that resets the gradient whether or not one was supplied.
_fix_src_resets_gradient(src) ==
    [color |-> IF src.color = Undefined
               THEN Has([a |-> 0, r |-> 0, g |-> 0, b |-> 0]) ELSE src.color,
     start |-> IF src.start = Undefined THEN Has(<<0, 0>>) ELSE src.start,
     end |-> IF src.end = Undefined THEN Has(<<0, 0>>) ELSE src.end,
     center |-> IF src.center = Undefined THEN Has(<<0, 0>>) ELSE src.center,
     radius |-> IF src.radius = Undefined \/ src.radius = Has(0) THEN Has(0)
                ELSE src.radius,
     center2 |-> IF src.center2 = Undefined THEN Has(<<0, 0>>)
                 ELSE src.center2,
     radius2 |-> IF src.radius2 = Undefined \/ src.radius2 = Has(0) THEN Has(0)
                 ELSE src.radius2,
     spread |-> IF src.spread = Undefined \/ src.spread = Has("")
                THEN Has("Pad") ELSE src.spread,
     gradient |-> Has([stops |-> <<>>]),
     src_type |-> src.src_type]

\* _fix_src(src): every property that is falsy (undefined; 0 for a number,
\* "" for a string) is assigned its default ON THE OBJECT PASSED IN, which
\* is also what is returned.  The value is the object after the call.
_fix_src(src) ==
    [color |-> IF src.color = Undefined
               THEN Has([a |-> 0, r |-> 0, g |-> 0, b |-> 0]) ELSE src.color,
     start |-> IF src.start = Undefined THEN Has(<<0, 0>>) ELSE src.start,
     end |-> IF src.end = Undefined THEN Has(<<0, 0>>) ELSE src.end,
     center |-> IF src.center = Undefined THEN Has(<<0, 0>>) ELSE src.center,
     radius |-> IF src.radius = Undefined \/ src.radius = Has(0) THEN Has(0)
                ELSE src.radius,
     center2 |-> IF src.center2 = Undefined THEN Has(<<0, 0>>)
                 ELSE src.center2,
     radius2 |-> IF src.radius2 = Undefined \/ src.radius2 = Has(0) THEN Has(0)
                 ELSE src.radius2,
     spread |-> IF src.spread = Undefined \/ src.spread = Has("")
                THEN Has("Pad") ELSE src.spread,
     gradient |-> IF src.gradient = Undefined THEN Has([stops |-> <<>>])
                  ELSE src.gradient,
     src_type |-> src.src_type]

\* A _fix_path whose placeholder for arc has four elements.
_fix_path_short_arc(path) ==
    [steps |->
        [i \in 1..Len(path.steps) |->
            LET step == path.steps[i]
            IN  [linear |-> IF step.linear = Undefined THEN Has(<<0, 0>>)
                            ELSE step.linear,
                 quad |-> IF step.quad = Undefined THEN Has(<<0, 0, 0, 0>>)
                          ELSE step.quad,
                 cubic |-> IF step.cubic = Undefined
                           THEN Has(<<0, 0, 0, 0, 0, 0>>) ELSE step.cubic,
                 arc |-> IF step.arc = Undefined THEN Has(<<0, 0, 0, 0>>)
                         ELSE step.arc,
                 path_type |-> step.path_type]]]

\* _fix_path(path): a new PathData whose steps are the steps passed in, in
\* order, each assigned the arrays it lacks (an array is truthy whatever its
\* length).  The step objects are changed in place, so the value is also
\* what the caller's path holds after the call.
_fix_path(path) ==
    [steps |->
        [i \in 1..Len(path.steps) |->
            LET step == path.steps[i]
            IN  [linear |-> IF step.linear = Undefined THEN Has(<<0, 0>>)
                            ELSE step.linear,
                 quad |-> IF step.quad = Undefined THEN Has(<<0, 0, 0, 0>>)
                          ELSE step.quad,
                 cubic |-> IF step.cubic = Undefined
                           THEN Has(<<0, 0, 0, 0, 0, 0>>) ELSE step.cubic,
                 arc |-> IF step.arc = Undefined THEN Has(<<0, 0, 0, 0, 0>>)
                         ELSE step.arc,
                 path_type |-> step.path_type]]]

\* Argument values handed to dispatch: a number or string (kind "plain"),
\* an object (kind "object") or a Uint8Array (kind "bytes").
Num(n) == [v |-> ToString(n), kind |-> "plain"]
Plain(name) == [v |-> name, kind |-> "plain"]
Obj(name) == [v |-> name, kind |-> "object"]
Raw(name) == [v |-> name, kind |-> "bytes"]

\* args.map(...) of dispatch: a Uint8Array goes through as it is, an object
\* as the encoded text of JSON.stringify(e), anything else as the encoded
\* text of `${e}`.
encodeArg(e) ==
    IF e.kind = "bytes" THEN [v |-> e.v, enc |-> "raw"]
    ELSE IF e.kind = "object" THEN [v |-> JSON_stringify(e.v), enc |-> "json"]
    ELSE [v |-> e.v, enc |-> "text"]

\* A dispatch that issues the call a second time when the answer is not "0".
dispatch_retry(id, args, resp) ==
    LET call == [args |-> [i \in 1..Len(args) |-> encodeArg(args[i])], op |-> id]
    IN  [calls |-> IF decode(resp) = "0" THEN <<call>> ELSE <<call, call>>,
         data |-> resp]

\* dispatch(id, ...args): one Deno.core.dispatch call; resp is what the
\* plugin answers.  calls is the sequence of calls put on the channel.
dispatch(id, args, resp) ==
    [calls |-> <<[args |-> [i \in 1..Len(args) |-> encodeArg(args[i])],
                  op |-> id]>>,
     data |-> resp]

\* dispatch_data(id, ...args): the answer decoded as text.
dispatch_data(id, args, resp) ==
    LET d == dispatch(id, args, resp)
    IN  [calls |-> d.calls, data |-> decode(d.data)]

\* ----------------------------------------------------------- ops wrappers
\* Each wrapper yields the calls it issued and the value it returns; one
\* that normalizes a record of its caller also yields what that record
\* holds after the call (src, path).
new_draw_target(id, width, height, resp) ==
    LET d == dispatch_data(op_new_draw_target, <<Num(id), width, height>>, resp)
    IN  [calls |-> d.calls, ret |-> (d.data = "0")]

\* void is TRUE when the wrapper returns undefined.
dt_get_data(id, resp) ==
    LET d == dispatch(op_dt_get_data, <<Num(id)>>, resp)
    IN  IF Len(d.data) = 1 /\ decode(d.data) = "1"
        THEN [buf |-> <<>>, calls |-> d.calls, void |-> TRUE]
        ELSE [buf |-> d.data, calls |-> d.calls, void |-> FALSE]

dt_write_png(id, path, resp) ==
    LET d == dispatch_data(op_dt_write_png, <<Num(id), path>>, resp)
    IN  [calls |-> d.calls, ret |-> (d.data = "0")]

dt_fill_rect(id, x, y, w, h, src, resp) ==
    LET s == _fix_src(src)
        d == dispatch_data(op_dt_fill_rect, <<Num(id), x, y, w, h, Obj(s)>>, resp)
    IN  [src |-> s, calls |-> d.calls, ret |-> (d.data = "0")]

dt_fill(id, path, src, resp) ==
    LET p == _fix_path(path)
        s == _fix_src(src)
        d == dispatch_data(op_dt_fill, <<Num(id), Obj(p), Obj(s)>>, resp)
    IN  [src |-> s, path |-> p, calls |-> d.calls, ret |-> (d.data = "0")]

\* A dt_stroke that sends the stroke style before the paint source.
dt_stroke_style_first(id, path, stroke, src, resp) ==
    LET p == _fix_path(path)
        s == _fix_src(src)
        d == dispatch_data(op_dt_stroke,
                           <<Num(id), Obj(p), Obj(stroke), Obj(s)>>, resp)
    IN  [src |-> s, path |-> p, calls |-> d.calls, ret |-> (d.data = "0")]

dt_stroke(id, path, stroke, src, resp) ==
    LET p == _fix_path(path)
        s == _fix_src(src)
        d == dispatch_data(op_dt_stroke,
                           <<Num(id), Obj(p), Obj(s), Obj(stroke)>>, resp)
    IN  [src |-> s, path |-> p, calls |-> d.calls, ret |-> (d.data = "0")]

dt_destroy(id, resp) ==
    LET d == dispatch_data(op_dt_destroy, <<Num(id)>>, resp)
    IN  [calls |-> d.calls, ret |-> (d.data = "0")]

dt_encode(id, resp) ==
    LET d == dispatch(op_dt_encode, <<Num(id)>>, resp)
    IN  IF Len(d.data) = 0 /\ decode(d.data) = "n"
        THEN [buf |-> <<>>, calls |-> d.calls, void |-> TRUE]
        ELSE [buf |-> d.data, calls |-> d.calls, void |-> FALSE]

draw_image_at(id, img, x, y, resp) ==
    LET d == dispatch_data(op_dt_draw_image_at, <<Num(id), img, x, y>>, resp)
    IN  [calls |-> d.calls, ret |-> (d.data = "0")]

draw_image_with_size_at(id, img, x, y, w, h, resp) ==
    LET d == dispatch_data(op_dt_draw_image_with_size_at,
                           <<Num(id), img, x, y, w, h>>, resp)
    IN  [calls |-> d.calls, ret |-> (d.data = "0")]

\* Number(text) for the texts the plugin answers with: "" is 0, a decimal
\* numeral is its value, anything else is NaN.
Number(text) ==
    CASE text = "" -> [n |-> 0, nan |-> FALSE]
      [] text = "0" -> [n |-> 0, nan |-> FALSE]
      [] text = "1" -> [n |-> 1, nan |-> FALSE]
      [] text = "01" -> [n |-> 1, nan |-> FALSE]
      [] OTHER -> [n |-> 0, nan |-> TRUE]

dt_clear(id, a, r, g, b, resp) ==
    LET d == dispatch_data(op_dt_clear, <<Num(id), a, r, g, b>>, resp)
    IN  [calls |-> d.calls, ret |-> (d.data = "0")]

\* void is TRUE when the wrapper returns undefined; otherwise it returns
\* Number(res).
dt_height(id, resp) ==
    LET d == dispatch_data(op_dt_height, <<Num(id)>>, resp)
    IN  IF d.data = "n"
        THEN [calls |-> d.calls, void |-> TRUE, num |-> Number("")]
        ELSE [calls |-> d.calls, void |-> FALSE, num |-> Number(d.data)]

dt_width(id, resp) ==
    LET d == dispatch_data(op_dt_width, <<Num(id)>>, resp)
    IN  IF d.data = "n"
        THEN [calls |-> d.calls, void |-> TRUE, num |-> Number("")]
        ELSE [calls |-> d.calls, void |-> FALSE, num |-> Number(d.data)]

\* A dt_set_transform that does not send rc.
dt_set_transform_no_rc(id, rc, m11, m21, m31, m12, m22, m32, resp) ==
    LET d == dispatch_data(op_dt_set_transform,
                           <<Num(id), m11, m21, m31, m12, m22, m32>>, resp)
    IN  [calls |-> d.calls, ret |-> (d.data = "0")]

dt_set_transform(id, rc, m11, m21, m31, m12, m22, m32, resp) ==
    LET d == dispatch_data(op_dt_set_transform,
                           <<Num(id), rc, m11, m21, m31, m12, m22, m32>>, resp)
    IN  [calls |-> d.calls, ret |-> (d.data = "0")]

dt_push_layer(id, opacity, resp) ==
    LET d == dispatch_data(op_dt_push_layer, <<Num(id), opacity>>, resp)
    IN  [calls |-> d.calls, ret |-> (d.data = "0")]

dt_push_layer_with_blend(id, opacity, blend, resp) ==
    LET d == dispatch_data(op_dt_push_layer_with_blend,
                           <<Num(id), opacity, blend>>, resp)
    IN  [calls |-> d.calls, ret |-> (d.data = "0")]

\* dispatch_data(op_dt_pop_clip, id, _fix_path(path))
dt_push_clip(id, path, resp) ==
    LET p == _fix_path(path)
        d == dispatch_data(op_dt_pop_clip, <<Num(id), Obj(p)>>, resp)
    IN  [path |-> p, calls |-> d.calls, ret |-> (d.data = "0")]

dt_push_clip_rect(id, x1, y1, x2, y2, resp) ==
    LET d == dispatch_data(op_dt_push_clip_rect, <<Num(id), x1, y1, x2, y2>>, resp)
    IN  [calls |-> d.calls, ret |-> (d.data = "0")]

dt_pop_clip(id, resp) ==
    LET d == dispatch_data(op_dt_pop_clip, <<Num(id)>>, resp)
    IN  [calls |-> d.calls, ret |-> (d.data = "0")]

dt_pop_layer(id, resp) ==
    LET d == dispatch_data(op_dt_pop_layer, <<Num(id)>>, resp)
    IN  [calls |-> d.calls, ret |-> (d.data = "0")]

\* ------------------------------------------- builders of the host program
\* new Color(a, r, g, b)
Color(a, r, g, b) == [a |-> a, r |-> r, g |-> g, b |-> b]

\* An ISource that has its src_type and nothing else.
ISource(src_type) ==
    [color |-> Undefined, start |-> Undefined, end |-> Undefined,
     center |-> Undefined, radius |-> Undefined, center2 |-> Undefined,
     radius2 |-> Undefined, spread |-> Undefined, gradient |-> Undefined,
     src_type |-> Has(src_type)]

\* Source.Solid(color)
Solid(color) == [ISource("Solid") EXCEPT !.color = Has(color)]

\* Source.createRadialGradient(stops, center, radius, spread); center is
\* center.toArray()
createRadialGradient(stops, center, radius, spread) ==
    [ISource("RadialGradient") EXCEPT
        !.gradient = Has([stops |-> stops]), !.center = Has(center),
        !.radius = Has(radius), !.spread = Has(spread)]

\* new Gradient().addStop(position, color): one more stop at the end
addStop(stops, position, color) ==
    Append(stops, [color |-> color, position |-> position])

\* A Path step that has its path_type and nothing else.
Path(path_type) ==
    [linear |-> Undefined, quad |-> Undefined, cubic |-> Undefined,
     arc |-> Undefined, path_type |-> Has(path_type)]

\* The steps PathBuilder pushes.
moveTo(x, y) == [Path("Move") EXCEPT !.linear = Has(<<x, y>>)]
lineTo(x, y) == [Path("Line") EXCEPT !.linear = Has(<<x, y>>)]
quadTo(cx, cy, x, y) == [Path("Quad") EXCEPT !.quad = Has(<<cx, cy, x, y>>)]
rect(x, y, w, h) == [Path("Rect") EXCEPT !.quad = Has(<<x, y, w, h>>)]
cubicTo(cx, cy, cx2, cy2, x, y) ==
    [Path("Cubic") EXCEPT !.cubic = Has(<<cx, cy, cx2, cy2, x, y>>)]
arc(x, y, r, startAngle, sweepAngle) ==
    [Path("Arc") EXCEPT !.arc = Has(<<x, y, r, startAngle, sweepAngle>>)]
close == Path("Close")

\* PathBuilder.finish(): { steps: this.steps }
finish(steps) == [steps |-> steps]

\* The records of the example program (positions of stops in tenths).
ExampleGradient ==
    createRadialGradient(
        addStop(addStop(addStop(<<>>, 2, Color(255, 0, 255, 0)),
                        8, Color(255, 255, 255, 255)),
                10, Color(255, 255, 0, 255)),
        <<150, 150>>, 128, "Pad")

ExampleFillPath ==
    finish(<<moveTo(100, 10), cubicTo(150, 40, 175, 0, 200, 10),
             quadTo(120, 100, 80, 200), quadTo(150, 180, 300, 300), close>>)

ExampleStrokePath ==
    finish(<<moveTo(100, 100), lineTo(300, 300), lineTo(200, 300)>>)

ExampleStroke ==
    [width |-> Has(10), cap |-> Has("Round"), join |-> Has("Round"),
     miter_limit |-> Has(2), dash_array |-> Has(<<10, 18>>),
     dash_offset |-> Has(16)]

ExampleSolid == Solid(Color(128, 0, 0, 128))

\* A path of one step, for the calls made through the facade.
ShortPath == finish(<<moveTo(100, 100)>>)

\* ------------------------------------------------- the DrawTarget facade
VARIABLES
    DRAW_TARGETS,   \* const DRAW_TARGETS = new Set<number>()
    objs,           \* the DrawTarget objects constructed so far, in order:
                    \* id is the field this.id; st is the lifecycle state of
                    \* the surface (live after a successful creation call,
                    \* destroyed after a successful destroy call on it)
    last,           \* the most recent operation: what was called on which
                    \* object, the plugin's answer, the calls issued, what
                    \* the caller got, and DRAW_TARGETS and st before it
    applied         \* the most recent direct call of a wrapper of ops.ts:
                    \* its name, the plugin's answer, the calls issued, what
                    \* it returned, and the records passed to it as they
                    \* were before and as they are after the call

vars == <<DRAW_TARGETS, objs, last, applied>>

\* What the caller of a method gets: a returned value or a thrown Error.
Return(val, buf) == [buf |-> buf, kind |-> "return", val |-> val]
Throw(msg) == [buf |-> <<>>, kind |-> "throw", val |-> msg]

\* An allocator that continues past the largest live id.
getNewID_past_max(T) ==
    IF T = {} THEN 0
    ELSE LET m == CHOOSE k \in T : \A j \in T : j <= k IN m + 1

\* getNewID(): let id = 0; while (DRAW_TARGETS.has(id)) id++; return id
RECURSIVE scanID(_, _)
scanID(T, id) == IF id \in T THEN scanID(T, id + 1) ELSE id

getNewID(T) == scanID(T, 0)

\* A constructor that registers the id before it looks at the answer.
constructor_add_first(T, width, height, resp) ==
    LET id == getNewID(T)
        c == new_draw_target(id, width, height, resp)
    IN  [id |-> id, calls |-> c.calls, targets |-> T \cup {id},
         outcome |-> IF ~c.ret THEN Throw("Failed to create DrawTarget")
                     ELSE Return("DrawTarget", <<>>)]

\* new DrawTarget(width, height), with DRAW_TARGETS = T
constructor(T, width, height, resp) ==
    LET id == getNewID(T)
        created == new_draw_target(id, width, height, resp)
    IN  IF ~created.ret
        THEN [id |-> id, calls |-> created.calls, targets |-> T,
              outcome |-> Throw("Failed to create DrawTarget")]
        ELSE [id |-> id, calls |-> created.calls, targets |-> T \cup {id},
              outcome |-> Return("DrawTarget", <<>>)]

getData(this, resp) ==
    LET d == dt_get_data(this.id, resp)
    IN  [calls |-> d.calls,
         outcome |-> IF d.void THEN Return("undefined", <<>>)
                     ELSE Return("Uint8Array", d.buf)]

fillRect(this, x, y, w, h, src, resp) ==
    LET d == dt_fill_rect(this.id, x, y, w, h, src, resp)
    IN  [calls |-> d.calls,
         outcome |-> IF ~d.ret THEN Throw("Failed to fillRect")
                     ELSE Return("this", <<>>)]

\* A fill that tests the status the wrong way round.
fill_inverted(this, path, src, resp) ==
    LET d == dt_fill(this.id, path, src, resp)
    IN  [calls |-> d.calls,
         outcome |-> IF d.ret THEN Throw("Failed to fill")
                     ELSE Return("this", <<>>)]

fill(this, path, src, resp) ==
    LET d == dt_fill(this.id, path, src, resp)
    IN  [calls |-> d.calls,
         outcome |-> IF ~d.ret THEN Throw("Failed to fill")
                     ELSE Return("this", <<>>)]

stroke(this, path, style, src, resp) ==
    LET d == dt_stroke(this.id, path, style, src, resp)
    IN  [calls |-> d.calls,
         outcome |-> IF ~d.ret THEN Throw("Failed to stroke")
                     ELSE Return("this", <<>>)]

drawImageAt(this, x, y, img, resp) ==
    LET d == draw_image_at(this.id, img, x, y, resp)
    IN  [calls |-> d.calls,
         outcome |-> IF ~d.ret THEN Throw("Failed to drawImageAt")
                     ELSE Return("this", <<>>)]

\* A drawImageWithSizeAt that hands x, y, w, h to the wrapper in its own
\* order.
drawImageWithSizeAt_own_order(this, x, y, w, h, img, resp) ==
    LET d == draw_image_with_size_at(this.id, img, x, y, w, h, resp)
    IN  [calls |-> d.calls,
         outcome |-> IF ~d.ret THEN Throw("Failed to drawImageWithSizeAt")
                     ELSE Return("this", <<>>)]

drawImageWithSizeAt(this, x, y, w, h, img, resp) ==
    LET d == draw_image_with_size_at(this.id, img, w, h, x, y, resp)
    IN  [calls |-> d.calls,
         outcome |-> IF ~d.ret THEN Throw("Failed to drawImageWithSizeAt")
                     ELSE Return("this", <<>>)]

writePNG(this, path, resp) ==
    LET d == dt_write_png(this.id, path, resp)
    IN  [calls |-> d.calls,
         outcome |-> IF ~d.ret THEN Throw("Failed to writePNG")
                     ELSE Return("this", <<>>)]

\* if (!res) throw: a Uint8Array is truthy whatever its length
encodePNG(this, resp) ==
    LET res == dt_encode(this.id, resp)
    IN  [calls |-> res.calls,
         outcome |-> IF res.void THEN Throw("Failed to encodePNG")
                     ELSE Return("Uint8Array", res.buf)]

\* A destroy that forgets the id whatever the answer was.
destroy_always_delete(this, T, resp) ==
    LET done == dt_destroy(this.id, resp)
    IN  [calls |-> done.calls, targets |-> T \ {this.id},
         outcome |-> Return(IF done.ret THEN "true" ELSE "false", <<>>)]

destroy(this, T, resp) ==
    LET done == dt_destroy(this.id, resp)
    IN  [calls |-> done.calls,
         targets |-> IF done.ret THEN T \ {this.id} ELSE T,
         outcome |-> Return(IF done.ret THEN "true" ELSE "false", <<>>)]

\* ------------------------------------------------------------ the program
Init ==
    /\ DRAW_TARGETS = {}
    /\ objs = <<>>
    /\ last = [id |-> 0, resp |-> <<>>, op |-> "none", calls |-> <<>>,
               outcome |-> Return("none", <<>>), obj |-> 0,
               before |-> {}, stBefore |-> "none"]
    /\ applied = [src |-> Undefined, path |-> Undefined, id |-> 0, resp |-> <<>>,
                  calls |-> <<>>, ret |-> [kind |-> "none"],
                  fn |-> "none", srcAfter |-> Undefined,
                  pathAfter |-> Undefined]

\* The methods that draw on or write out the surface and report a status.
DrawOps ==
    {"fillRect", "fill", "stroke", "drawImageAt", "drawImageWithSizeAt",
     "writePNG"}

\* The record of an operation op on object number o that had result r.
Done(op, o, r, resp) ==
    [id |-> objs[o].id, resp |-> resp, op |-> op, calls |-> r.calls,
     outcome |-> r.outcome, obj |-> o,
     before |-> DRAW_TARGETS, stBefore |-> objs[o].st]

\* A drawing or read-back method leaves DRAW_TARGETS and the objects alone.
Method(op, o, r, resp) ==
    /\ last' = Done(op, o, r, resp)
    /\ UNCHANGED <<DRAW_TARGETS, objs, applied>>

New ==
    /\ Len(objs) < MaxObjects
    /\ \E resp \in Responses :
        LET r == constructor(DRAW_TARGETS, Plain("width"), Plain("height"), resp)
        IN  /\ DRAW_TARGETS' = r.targets
            /\ objs' = IF r.outcome.kind = "throw" THEN objs
                       ELSE Append(objs, [id |-> r.id, st |-> "live"])
            /\ last' = [id |-> r.id,
                        resp |-> resp,
                        op |-> "new", calls |-> r.calls, outcome |-> r.outcome,
                        obj |-> IF r.outcome.kind = "throw" THEN 0
                                ELSE Len(objs) + 1, before |-> DRAW_TARGETS,
                        stBefore |-> "uninitialized"]
            /\ UNCHANGED applied

GetData ==
    \E o \in DOMAIN objs, resp \in Responses :
        Method("getData", o, getData(objs[o], resp), resp)

FillRect ==
    \E o \in DOMAIN objs, resp \in Responses :
        Method("fillRect", o,
               fillRect(objs[o], Plain("x"), Plain("y"), Plain("w"),
                        Plain("h"), ExampleSolid, resp), resp)

Fill ==
    \E o \in DOMAIN objs, resp \in Responses :
        Method("fill", o,
               fill(objs[o], ShortPath, ExampleSolid, resp), resp)

Stroke ==
    \E o \in DOMAIN objs, resp \in Responses :
        Method("stroke", o,
               stroke(objs[o], ShortPath, ExampleStroke, ExampleSolid,
                      resp),
               resp)

DrawImageAt ==
    \E o \in DOMAIN objs, resp \in Responses :
        Method("drawImageAt", o,
               drawImageAt(objs[o], Plain("x"), Plain("y"), Raw("img"), resp),
               resp)

DrawImageWithSizeAt ==
    \E o \in DOMAIN objs, resp \in Responses :
        Method("drawImageWithSizeAt", o,
               drawImageWithSizeAt(objs[o], Plain("x"), Plain("y"), Plain("w"),
                                   Plain("h"), Raw("img"), resp), resp)

WritePNG ==
    \E o \in DOMAIN objs, resp \in Responses :
        Method("writePNG", o, writePNG(objs[o], Plain("path"), resp), resp)

EncodePNG ==
    \E o \in DOMAIN objs, resp \in Responses :
        Method("encodePNG", o, encodePNG(objs[o], resp), resp)

Destroy ==
    \E o \in DOMAIN objs, resp \in Responses :
        LET r == destroy(objs[o], DRAW_TARGETS, resp)
        IN  /\ DRAW_TARGETS' = r.targets
            /\ objs' = IF r.outcome.val = "true"
                       THEN [objs EXCEPT ![o].st = "destroyed"]
                       ELSE objs
            /\ last' = Done("destroy", o, r, resp)
            /\ UNCHANGED applied

Next ==
    \/ New
    \/ GetData
    \/ FillRect
    \/ Fill
    \/ Stroke
    \/ DrawImageAt
    \/ DrawImageWithSizeAt
    \/ WritePNG
    \/ EncodePNG
    \/ Destroy

Spec == Init /\ [][Next]_vars

\* ------------------------------------- the wrappers of ops.ts, called directly
\* The exported wrappers are applied to surface ids, paint sources and paths
\* drawn from the sets below; the facade's state is not involved.
IDs == 0..MaxID

\* Paint sources: the two of the example program, one with nothing but its
\* src_type, a linear gradient with a radius of 0 and one stop, and a
\* radial gradient with an empty list of stops.
Sources ==
    {ExampleSolid,
     ExampleGradient,
     ISource("Solid"),
     [ISource("LinearGradient") EXCEPT
         !.start = Has(<<1, 2>>), !.end = Has(<<3, 4>>), !.radius = Has(0),
         !.spread = Has("Reflect"),
         !.gradient = Has([stops |-> addStop(<<>>, 5, Color(1, 2, 3, 4))])],
     createRadialGradient(<<>>, <<7, 7>>, 9, "Repeat")}

\* Paths: the two of the example program, the empty path, one of a Rect and
\* an Arc step, and one whose step has an empty array.
Paths ==
    {ExampleFillPath,
     ExampleStrokePath,
     finish(<<>>),
     finish(<<rect(1, 2, 3, 4), arc(5, 6, 7, 8, 9)>>),
     finish(<<[Path("Line") EXCEPT !.linear = Has(<<>>)], close>>)}

\* What a wrapper returned.
Bool(b) == [b |-> b, kind |-> "boolean"]
Buffer(r) ==
    IF r.void THEN [kind |-> "undefined"]
    ELSE [buf |-> r.buf, kind |-> "Uint8Array"]
Numeric(r) ==
    IF r.void THEN [kind |-> "undefined"]
    ELSE [n |-> r.num.n, kind |-> "number", nan |-> r.num.nan]

\* The record of a call of wrapper fn.
Applied(fn, id, resp, calls, ret, src, srcAfter, path, pathAfter) ==
    /\ applied' = [src |-> src, path |-> path, id |-> id, resp |-> resp,
                   calls |-> calls, ret |-> ret, fn |-> fn,
                   srcAfter |-> srcAfter, pathAfter |-> pathAfter]
    /\ UNCHANGED <<DRAW_TARGETS, objs, last>>

\* A call of a wrapper that takes no record.
Plainly(fn, id, resp, calls, ret) ==
    Applied(fn, id, resp, calls, ret, Undefined, Undefined, Undefined, Undefined)

Call_new_draw_target ==
    \E id \in IDs, resp \in Responses :
        LET r == new_draw_target(id, Plain("width"), Plain("height"), resp)
        IN  Plainly("new_draw_target", id, resp, r.calls, Bool(r.ret))

Call_dt_get_data ==
    \E id \in IDs, resp \in Responses :
        LET r == dt_get_data(id, resp)
        IN  Plainly("dt_get_data", id, resp, r.calls, Buffer(r))

Call_dt_write_png ==
    \E id \in IDs, resp \in Responses :
        LET r == dt_write_png(id, Plain("path"), resp)
        IN  Plainly("dt_write_png", id, resp, r.calls, Bool(r.ret))

Call_dt_fill_rect ==
    \E id \in IDs, resp \in Responses, src \in Sources :
        LET r == dt_fill_rect(id, Plain("x"), Plain("y"), Plain("w"),
                              Plain("h"), src, resp)
        IN  Applied("dt_fill_rect", id, resp, r.calls, Bool(r.ret),
                    Has(src), Has(r.src), Undefined, Undefined)

Call_dt_fill ==
    \E id \in IDs, resp \in Responses, src \in Sources, path \in Paths :
        LET r == dt_fill(id, path, src, resp)
        IN  Applied("dt_fill", id, resp, r.calls, Bool(r.ret),
                    Has(src), Has(r.src), Has(path), Has(r.path))

Call_dt_stroke ==
    \E id \in IDs, resp \in Responses, src \in Sources, path \in Paths :
        LET r == dt_stroke(id, path, ExampleStroke, src, resp)
        IN  Applied("dt_stroke", id, resp, r.calls, Bool(r.ret),
                    Has(src), Has(r.src), Has(path), Has(r.path))

Call_dt_clear ==
    \E id \in IDs, resp \in Responses :
        LET r == dt_clear(id, Plain("a"), Plain("r"), Plain("g"), Plain("b"),
                          resp)
        IN  Plainly("dt_clear", id, resp, r.calls, Bool(r.ret))

Call_dt_destroy ==
    \E id \in IDs, resp \in Responses :
        LET r == dt_destroy(id, resp)
        IN  Plainly("dt_destroy", id, resp, r.calls, Bool(r.ret))

Call_dt_height ==
    \E id \in IDs, resp \in Responses :
        LET r == dt_height(id, resp)
        IN  Plainly("dt_height", id, resp, r.calls, Numeric(r))

Call_dt_encode ==
    \E id \in IDs, resp \in Responses :
        LET r == dt_encode(id, resp)
        IN  Plainly("dt_encode", id, resp, r.calls, Buffer(r))

Call_dt_width ==
    \E id \in IDs, resp \in Responses :
        LET r == dt_width(id, resp)
        IN  Plainly("dt_width", id, resp, r.calls, Numeric(r))

Call_draw_image_at ==
    \E id \in IDs, resp \in Responses :
        LET r == draw_image_at(id, Raw("img"), Plain("x"), Plain("y"), resp)
        IN  Plainly("draw_image_at", id, resp, r.calls, Bool(r.ret))

Call_draw_image_with_size_at ==
    \E id \in IDs, resp \in Responses :
        LET r == draw_image_with_size_at(id, Raw("img"), Plain("x"),
                                         Plain("y"), Plain("w"), Plain("h"),
                                         resp)
        IN  Plainly("draw_image_with_size_at", id, resp, r.calls, Bool(r.ret))

Call_dt_set_transform ==
    \E id \in IDs, resp \in Responses :
        LET r == dt_set_transform(id, Plain("rc"), Plain("m11"), Plain("m21"),
                                  Plain("m31"), Plain("m12"), Plain("m22"),
                                  Plain("m32"), resp)
        IN  Plainly("dt_set_transform", id, resp, r.calls, Bool(r.ret))

Call_dt_push_layer ==
    \E id \in IDs, resp \in Responses :
        LET r == dt_push_layer(id, Plain("opacity"), resp)
        IN  Plainly("dt_push_layer", id, resp, r.calls, Bool(r.ret))

Call_dt_push_layer_with_blend ==
    \E id \in IDs, resp \in Responses :
        LET r == dt_push_layer_with_blend(id, Plain("opacity"), Plain("blend"),
                                          resp)
        IN  Plainly("dt_push_layer_with_blend", id, resp, r.calls, Bool(r.ret))

Call_dt_push_clip ==
    \E id \in IDs, resp \in Responses, path \in Paths :
        LET r == dt_push_clip(id, path, resp)
        IN  Applied("dt_push_clip", id, resp, r.calls, Bool(r.ret),
                    Undefined, Undefined, Has(path), Has(r.path))

Call_dt_push_clip_rect ==
    \E id \in IDs, resp \in Responses :
        LET r == dt_push_clip_rect(id, Plain("x1"), Plain("y1"), Plain("x2"),
                                   Plain("y2"), resp)
        IN  Plainly("dt_push_clip_rect", id, resp, r.calls, Bool(r.ret))

Call_dt_pop_clip ==
    \E id \in IDs, resp \in Responses :
        LET r == dt_pop_clip(id, resp)
        IN  Plainly("dt_pop_clip", id, resp, r.calls, Bool(r.ret))

Call_dt_pop_layer ==
    \E id \in IDs, resp \in Responses :
        LET r == dt_pop_layer(id, resp)
        IN  Plainly("dt_pop_layer", id, resp, r.calls, Bool(r.ret))

NextOps ==
    \/ Call_new_draw_target
    \/ Call_dt_get_data
    \/ Call_dt_write_png
    \/ Call_dt_fill_rect
    \/ Call_dt_fill
    \/ Call_dt_stroke
    \/ Call_dt_clear
    \/ Call_dt_destroy
    \/ Call_dt_height
    \/ Call_dt_encode
    \/ Call_dt_width
    \/ Call_draw_image_at
    \/ Call_draw_image_with_size_at
    \/ Call_dt_set_transform
    \/ Call_dt_push_layer
    \/ Call_dt_push_layer_with_blend
    \/ Call_dt_push_clip
    \/ Call_dt_push_clip_rect
    \/ Call_dt_pop_clip
    \/ Call_dt_pop_layer

SpecOps == Init /\ [][NextOps]_vars

\* ------------------------------------------------------------ properties
Live(o) == objs[o].st = "live"

\* The status text of the answer to the most recent call.
Status == decode(last.resp)

\* C1: no two live DrawTarget objects hold the same handle id at the same
\* time, whatever creations, drawing operations and (repeated) destroy calls
\* came before.
C1_NoTwoLiveShareID ==
    \A a, b \in DOMAIN objs :
        (a # b /\ Live(a) /\ Live(b)) => objs[a].id # objs[b].id

\* C2: every creation is given the smallest non-negative integer that is not
\* in the live-id set at that moment, so a freed id below the largest live id
\* is reused before any value past the maximum.
C2_SmallestFreeID ==
    last.op = "new" =>
        /\ last.id \notin last.before
        /\ \A j \in 0..(last.id - 1) : j \in last.before

\* A creation that reused the id of a destroyed surface while a larger id
\* was live.
C2_Witness ==
    /\ last.op = "new"
    /\ last.outcome.kind = "return"
    /\ \E k \in last.before : k > last.id
    /\ \E o \in DOMAIN objs : objs[o].st = "destroyed" /\ objs[o].id = last.id

\* C3: every operation invoked on a DrawTarget that was successfully
\* destroyed fails locally and issues no call on the channel.
C3_DestroyedFailsLocally ==
    (last.op # "none" /\ last.stBefore = "destroyed") =>
        /\ Len(last.calls) = 0
        /\ last.outcome.kind = "throw"

\* C4: a destroy answered "0" removes the surface's id from the live set, so
\* that the allocator can hand it out again; a destroy answered anything else
\* leaves the live set, the id's membership and the surface's state as they
\* were.
C4_DestroyReleasesOnSuccessOnly ==
    last.op = "destroy" =>
        IF Status = "0"
        THEN /\ last.id \notin DRAW_TARGETS
             /\ getNewID(DRAW_TARGETS) <= last.id
             /\ objs[last.obj].st = "destroyed"
        ELSE /\ DRAW_TARGETS = last.before
             /\ (last.id \in last.before => last.id \in DRAW_TARGETS)
             /\ objs[last.obj].st = last.stBefore

\* A failed destroy of a live surface whose id stays in the live set, after
\* another surface was destroyed and its id freed.
C4_Witness ==
    /\ last.op = "destroy"
    /\ Status # "0"
    /\ last.stBefore = "live"
    /\ Live(last.obj)
    /\ last.id \in DRAW_TARGETS
    /\ \E o \in DOMAIN objs :
          objs[o].st = "destroyed" /\ objs[o].id \notin DRAW_TARGETS

\* C5: a create-surface call answered with a status other than "0" makes the
\* constructor throw, and the chosen id is not in the live set afterwards:
\* the live set is what it was before the attempt.
C5_FailedCreationNotRegistered ==
    (last.op = "new" /\ Status # "0") =>
        /\ last.outcome = Throw("Failed to create DrawTarget")
        /\ last.obj = 0
        /\ last.id \notin DRAW_TARGETS
        /\ DRAW_TARGETS = last.before

\* A failed creation while other surfaces are live.
C5_Witness ==
    /\ last.op = "new"
    /\ Status # "0"
    /\ last.outcome.kind = "throw"
    /\ DRAW_TARGETS # {}

\* The operation recorded in l was a drawing operation answered with a
\* status other than "0".
FailedDraw(l) == l.op \in DrawOps /\ decode(l.resp) # "0"

\* C6: a drawing operation answered with a status other than "0" is thrown
\* to the caller as that operation's failure and changes neither the live-id
\* set nor the surface's state; the next operation on that surface is
\* dispatched as usual, with the surface's id.
C6_FailedDrawLeavesSurfaceLive ==
    /\ [](FailedDraw(last) =>
            /\ last.outcome = Throw("Failed to " \o last.op)
            /\ DRAW_TARGETS = last.before
            /\ objs[last.obj].st = last.stBefore)
    /\ [][(FailedDraw(last) /\ last' # last /\ last'.obj = last.obj) =>
            /\ Len(last'.calls) = 1
            /\ last'.calls[1].args[1] = encodeArg(Num(last.id))]_vars

\* A drawing operation on a live surface, answered with a failure status and
\* thrown to the caller, with the surface still registered and live.
C6_Witness ==
    /\ FailedDraw(last)
    /\ last.outcome.kind = "throw"
    /\ last.stBefore = "live"
    /\ Live(last.obj)
    /\ last.id \in DRAW_TARGETS

\* C7: destroying a handle that is not live (already released) returns false
\* and changes the liveness of no surface, also not of a surface created
\* since with the same id.
C7_ReleaseOfDeadHandleRefused ==
    (last.op = "destroy" /\ last.stBefore # "live") =>
        /\ last.outcome.val = "false"
        /\ DRAW_TARGETS = last.before

\* The detail msg of a reported failure carries the status text: it is that
\* text (an empty status text is carried by any detail).
Carries(msg, text) == text = "" \/ msg = text

\* C8: when the answer to a call is a status text other than "0", the failure
\* reported to the caller carries that status text as its detail.
C8_FailureCarriesStatusText ==
    (last.op \in DrawOps \cup {"new"} /\ Status # "0") =>
        /\ last.outcome.kind = "throw"
        /\ Carries(last.outcome.val, Status)

\* C9: every operation, creation and destruction included, issues exactly one
\* call on the channel, whether the answer is success or failure.
C9_ExactlyOneCall ==
    last.op # "none" => Len(last.calls) = 1

\* An operation whose only call was answered with a failure status.
C9_Witness ==
    /\ last.op \in DrawOps \cup {"new", "destroy"}
    /\ Status # "0"
    /\ Len(last.calls) = 1

\* C10: for getData and encodePNG the one-byte answer "1" yields the "no
\* value" outcome, and every other answer, the empty one included, is
\* returned to the caller as the result buffer.
C10_BufferSentinel ==
    last.op \in {"getData", "encodePNG"} =>
        IF last.resp = <<49>>
        THEN last.outcome.val = "undefined" \/ last.outcome.kind = "throw"
        ELSE last.outcome = Return("Uint8Array", last.resp)

\* --------------------------------------- properties of the wrappers of ops.ts
\* The call the most recent wrapper put on the channel, and its arguments.
Call == applied.calls[1]
Args == applied.calls[1].args

\* An argument that crossed as the encoded text t, as the JSON text of
\* object o, and as the bytes named b.
Text(t) == [v |-> t, enc |-> "text"]
Json(o) == [v |-> JSON_stringify(o), enc |-> "json"]
RawBytes(b) == [v |-> b, enc |-> "raw"]

\* The opcode that carries the name of wrapper fn in the opcode table.
OpcodeOf(fn) ==
    CASE fn = "new_draw_target" -> op_new_draw_target
      [] fn = "dt_get_data" -> op_dt_get_data
      [] fn = "dt_write_png" -> op_dt_write_png
      [] fn = "dt_fill_rect" -> op_dt_fill_rect
      [] fn = "dt_fill" -> op_dt_fill
      [] fn = "dt_stroke" -> op_dt_stroke
      [] fn = "dt_clear" -> op_dt_clear
      [] fn = "dt_destroy" -> op_dt_destroy
      [] fn = "dt_height" -> op_dt_height
      [] fn = "dt_encode" -> op_dt_encode
      [] fn = "dt_width" -> op_dt_width
      [] fn = "draw_image_at" -> op_dt_draw_image_at
      [] fn = "draw_image_with_size_at" -> op_dt_draw_image_with_size_at
      [] fn = "dt_set_transform" -> op_dt_set_transform
      [] fn = "dt_push_layer" -> op_dt_push_layer
      [] fn = "dt_push_layer_with_blend" -> op_dt_push_layer_with_blend
      [] fn = "dt_push_clip" -> op_dt_push_clip
      [] fn = "dt_push_clip_rect" -> op_dt_push_clip_rect
      [] fn = "dt_pop_clip" -> op_dt_pop_clip
      [] fn = "dt_pop_layer" -> op_dt_pop_layer

\* C11: each recognized operation is sent with the opcode bound to its own
\* name; in particular push-clip-path is sent with the push-clip opcode, which
\* is not the opcode pop-clip is sent with.
C11_OwnOpcode ==
    applied.fn # "none" =>
        /\ Len(applied.calls) = 1
        /\ Call.op = OpcodeOf(applied.fn)
        /\ applied.fn = "dt_push_clip" => Call.op # op_dt_pop_clip

\* C12 as stated: the stroke-path call carries id, path, stroke style, paint
\* source, in that order.
C12_StrokeOrderAsStated ==
    applied.fn = "dt_stroke" =>
        /\ Len(Args) = 4
        /\ Args[1] = Text(ToString(applied.id))
        /\ Args[2] = Json(applied.pathAfter[1])
        /\ Args[3] = Json(ExampleStroke)
        /\ Args[4] = Json(applied.srcAfter[1])

\* C12: the stroke-path call carries id, path, paint source, stroke style, in
\* that order: the normalized path and paint source as JSON text, the stroke
\* style as JSON text of the record passed in.
C12_StrokeOrder ==
    applied.fn = "dt_stroke" =>
        /\ Call.op = op_dt_stroke
        /\ Len(Args) = 4
        /\ Args[1] = Text(ToString(applied.id))
        /\ Args[2] = Json(applied.pathAfter[1])
        /\ Args[3] = Json(applied.srcAfter[1])
        /\ Args[4] = Json(ExampleStroke)

\* A stroke of the example path with the radial gradient as paint source.
C12_Witness ==
    /\ applied.fn = "dt_stroke"
    /\ applied.path = Has(ExampleStrokePath)
    /\ applied.src = Has(ExampleGradient)
    /\ applied.ret = Bool(TRUE)

\* The wrappers that return the status of the call.
StatusFns ==
    {"new_draw_target", "dt_write_png", "dt_fill_rect", "dt_fill", "dt_stroke",
     "dt_clear", "dt_destroy", "draw_image_at", "draw_image_with_size_at",
     "dt_set_transform", "dt_push_layer", "dt_push_layer_with_blend",
     "dt_push_clip", "dt_push_clip_rect", "dt_pop_clip", "dt_pop_layer"}

\* What a wrapper returned is the outcome Success, NoValue, or Failure with
\* the answer's text as its detail.
IsSuccess(ret) ==
    \/ ret.kind = "boolean" /\ ret.b
    \/ ret.kind = "number" /\ ~ret.nan
IsNoValue(ret) == ret.kind = "undefined"
IsFailure(ret, text) == "detail" \in DOMAIN ret /\ ret.detail = text

\* C13: decoding the status has three distinct outcomes: the text "0" is
\* Success, the text "n" is NoValue, which is neither Success nor Failure,
\* and every other text is Failure with that text as detail; for the
\* status-returning operations and for get-width and get-height.
C13_ThreeOutcomes ==
    applied.fn \in StatusFns \cup {"dt_width", "dt_height"} =>
        LET text == decode(applied.resp)
        IN  /\ text = "0" => IsSuccess(applied.ret)
            /\ text = "n" => IsNoValue(applied.ret)
            /\ text \in {"1", "01"} => IsFailure(applied.ret, text)

\* A paint source that has src_type Solid, a color and nothing else.
OnlySolidColor(src) ==
    /\ src.src_type = Has("Solid")
    /\ src.color # Undefined
    /\ \A k \in DOMAIN src \ {"src_type", "color"} : src[k] = Undefined

\* C14: normalizing a paint source that has only src_type Solid and a color
\* yields the color supplied and the documented default in every other
\* optional field: start, end, center and second center [0,0], radius and
\* second radius 0, spread "Pad", and a gradient of no stops.
C14_SolidDefaults ==
    (applied.src # Undefined /\ OnlySolidColor(applied.src[1])) =>
        applied.srcAfter[1] =
            [color |-> applied.src[1].color,
             start |-> Has(<<0, 0>>), end |-> Has(<<0, 0>>),
             center |-> Has(<<0, 0>>), radius |-> Has(0),
             center2 |-> Has(<<0, 0>>), radius2 |-> Has(0),
             spread |-> Has("Pad"), gradient |-> Has([stops |-> <<>>]),
             src_type |-> Has("Solid")]

\* The solid paint source of the example program was normalized.
C14_Witness ==
    /\ applied.fn = "dt_fill_rect"
    /\ applied.src = Has(ExampleSolid)
    /\ applied.srcAfter # applied.src

\* The array field a step has after normalization: the one supplied, or n
\* zeros where none was.
Kept(given, got, n) ==
    IF given # Undefined THEN got = given ELSE got = Has([j \in 1..n |-> 0])

\* C15: normalizing a path returns the same steps in the same order, every
\* step with all four array fields: a field the caller supplied keeps its
\* values, one left out is a zero-filled array of length 2 (linear), 4 (quad),
\* 6 (cubic) or 5 (arc).
C15_PathNormalized ==
    applied.path # Undefined =>
        LET given == applied.path[1].steps
            got == applied.pathAfter[1].steps
        IN  /\ DOMAIN got = DOMAIN given
            /\ \A i \in DOMAIN given :
                /\ got[i].path_type = given[i].path_type
                /\ Kept(given[i].linear, got[i].linear, 2)
                /\ Kept(given[i].quad, got[i].quad, 4)
                /\ Kept(given[i].cubic, got[i].cubic, 6)
                /\ Kept(given[i].arc, got[i].arc, 5)

\* A path of a Rect step and an Arc step was normalized: the arc supplied is
\* kept in the second step, and filled in in the first.
C15_Witness ==
    /\ applied.fn = "dt_fill"
    /\ applied.path = Has(finish(<<rect(1, 2, 3, 4), arc(5, 6, 7, 8, 9)>>))
    /\ applied.pathAfter[1].steps[1].arc = Has(<<0, 0, 0, 0, 0>>)
    /\ applied.pathAfter[1].steps[2].arc = Has(<<5, 6, 7, 8, 9>>)

\* The argument of the most recent call that holds the paint source.
SourceArg ==
    IF applied.fn = "dt_fill_rect" THEN Args[6] ELSE Args[3]

\* C16: a gradient whose stops are supplied passes through normalization and
\* argument encoding with the same stops in the same order, each stop's
\* position and color unchanged; the normalizer replaces the gradient only
\* when none was supplied.
C16_GradientPassesThrough ==
    applied.src # Undefined =>
        IF applied.src[1].gradient # Undefined
        THEN /\ applied.srcAfter[1].gradient = applied.src[1].gradient
             /\ SourceArg.enc = "json"
             /\ SourceArg.v.gradient = applied.src[1].gradient[1]
        ELSE /\ applied.srcAfter[1].gradient = Has([stops |-> <<>>])
             /\ SourceArg.v.gradient = [stops |-> <<>>]

\* The radial gradient of the example program, with its three stops, was the
\* paint source of a fill.
C16_Witness ==
    /\ applied.fn = "dt_fill"
    /\ applied.src = Has(ExampleGradient)
    /\ Len(SourceArg.v.gradient.stops) = 3
    /\ SourceArg.v.gradient.stops[1].position = 2
    /\ SourceArg.v.gradient.stops[3].color = Color(255, 255, 0, 255)

\* C17: normalization of a paint source or a path is a pure function: its
\* output depends only on the input record, and it leaves the caller's input
\* record as it was before the call.
C17_InputLeftAlone ==
    /\ applied.srcAfter = applied.src
    /\ applied.pathAfter = applied.path

\* C18 as stated: the set-transform call carries exactly the surface id
\* followed by six matrix components, and nothing else.
C18_TransformArgsAsStated ==
    applied.fn = "dt_set_transform" =>
        /\ Len(Args) = 7
        /\ Args[1] = Text(ToString(applied.id))
        /\ \A i \in 2..7 :
            Args[i] \in {Text(m) : m \in {"m11", "m21", "m31", "m12", "m22", "m32"}}

\* C18: the set-transform call carries the surface id, then rc, then the six
\* matrix components m11, m21, m31, m12, m22, m32, and nothing else.
C18_TransformArgs ==
    applied.fn = "dt_set_transform" =>
        /\ Call.op = op_dt_set_transform
        /\ Len(Args) = 8
        /\ Args[1] = Text(ToString(applied.id))
        /\ Args[2] = Text("rc")
        /\ [i \in 1..6 |-> Args[i + 2]] =
               <<Text("m11"), Text("m21"), Text("m31"),
                 Text("m12"), Text("m22"), Text("m32")>>

\* A set-transform call that the plugin answered with "0".
C18_Witness ==
    /\ applied.fn = "dt_set_transform"
    /\ applied.ret = Bool(TRUE)
    /\ Len(Args) = 8

\* ------------------------------------------------- properties of the facade
\* C19: for drawImageWithSizeAt(x, y, w, h, img), the draw-image-scaled-at
\* call carries id, image bytes, w, h, x, y in that order, the image bytes as
\* the same byte buffer and not as text.
C19_ScaledImageArgs ==
    last.op = "drawImageWithSizeAt" =>
        /\ Len(last.calls) = 1
        /\ last.calls[1].op = op_dt_draw_image_with_size_at
        /\ last.calls[1].args =
               <<Text(ToString(last.id)), RawBytes("img"), Text("w"), Text("h"),
                 Text("x"), Text("y")>>

\* A drawImageWithSizeAt that returned this.
C19_Witness ==
    /\ last.op = "drawImageWithSizeAt"
    /\ last.outcome.kind = "return"
    /\ last.calls[1].args[2] = RawBytes("img")

\* The ids of the surfaces that were created and not destroyed.
LiveIDs == {objs[o].id : o \in {o \in DOMAIN objs : Live(o)}}

\* C20: the live-id set holds exactly the ids of the surfaces whose creation
\* succeeded and that were not successfully destroyed, so its size never
\* exceeds the number of live surfaces.
C20_LiveIDSetExact ==
    /\ DRAW_TARGETS = LiveIDs
    /\ Cardinality(DRAW_TARGETS) <= Cardinality({o \in DOMAIN objs : Live(o)})

====
